---- MODULE Spec2Model ----
(***************************************************************************)
(* Apple Partition Map device image (crate apm, src/apm/src/lib.rs):       *)
(* the ApmMap aggregate, its byte codec, the allocator find_hole and the   *)
(* mutation API, as a state machine.                                       *)
(*                                                                         *)
(* A byte vector (Vec<u8>, &[u8]) is the record [len, nz]: its length and  *)
(* the function from the 0-based offsets of its non-zero bytes to their    *)
(* values; every other offset below len holds 0.  A String is the sequence *)
(* of its chars' code points.  Integer fields stay far below 2^31 in every *)
(* input drawn here, so u32 wrap-around is outside what is modelled.       *)
(***************************************************************************)
EXTENDS Integers, Sequences, FiniteSets, TLC

VARIABLES status, update_driver_desc, driver_desc, update_partition_table,
          partitions, raw_data, last, allocated, origin, nops, encodes

vars == <<status, update_driver_desc, driver_desc, update_partition_table,
          partitions, raw_data, last, allocated, origin, nops, encodes>>

image == <<update_driver_desc, driver_desc, update_partition_table,
           partitions, raw_data>>

(* ------------------------------ bounds ------------------------------- *)

\* number of push_* calls explored on one image
MaxOps == 2
\* block count of the largest image built by new()
MaxBlocks == 67
\* number of encode calls in a row explored on one image
MaxEncodes == 2
\* number of push_* calls on the image of the long-table specification
MaxTableOps == 63
\* block count of that image
TableBlocks == 128
\* number of drivers pushed on that image
MaxTableDrivers == 1
\* block count of the images handed to decode()
DecBlocks == 6

(* ------------------------- program constants ------------------------- *)

BLOCK == 512
SIG_PM == 20557
SIG_DEC == 5453
SIG_TS == 21587
STATUS_NEW == 183
CHECKSUM_EXPECTED == 34911
NAME_LEN == 32
PROC_LEN == 16
ENTRY_BYTES == 136
MAP_LENGTH == 63
BOOT_CHECKSUM_AT == 63012
BOOT_SIZE_AT == 9392

(* --------------------------- byte vectors ---------------------------- *)

NoBytes == [o \in {} |-> 0]

ZeroVec(n) == [len |-> n, nz |-> NoBytes]

At(v, o) == IF o \in DOMAIN v.nz THEN v.nz[o] ELSE 0

VecOf(seq) ==
    [len |-> Len(seq),
     nz  |-> [o \in {k - 1 : k \in {j \in 1..Len(seq) : seq[j] # 0}} |-> seq[o + 1]]]

\* raw[a..][..n] is in range
SliceOk(raw, a, n) == a <= raw.len /\ n <= raw.len - a

\* raw[off..][..data.len].copy_from_slice(data), the slice being in range
copy_from_slice(raw, off, data) ==
    [len |-> raw.len,
     nz  |-> [o \in (DOMAIN raw.nz \ (off..(off + data.len - 1)))
                       \cup {off + k : k \in DOMAIN data.nz} |->
                  IF (o - off) \in DOMAIN data.nz THEN data.nz[o - off] ELSE raw.nz[o]]]

\* data.chunks(512): the number of chunks and the length of chunk i (0-based)
NumChunks(data) == (data.len + BLOCK - 1) \div BLOCK

ChunkLen(data, i) == IF (i + 1) * BLOCK <= data.len THEN BLOCK ELSE data.len - i * BLOCK

(* ---------------------- big-endian integer codec --------------------- *)

BE16(x) == <<(x \div 256) % 256, x % 256>>

BE32(x) == <<(x \div 16777216) % 256, (x \div 65536) % 256, (x \div 256) % 256, x % 256>>

U16At(v, o) == At(v, o) * 256 + At(v, o + 1)

U32At(v, o) == At(v, o) * 16777216 + At(v, o + 1) * 65536 + At(v, o + 2) * 256 + At(v, o + 3)

Zeros(n) == [i \in 1..n |-> 0]

(* ----------------------- fixed-width string codec -------------------- *)

\* write_string::<LEN>: ret[i] = ch as u8 for every char; ret[i] with i >= LEN
\* is an out-of-bounds index, a panic
write_string_panics(cap, val) == Len(val) > cap

write_string(cap, val) == [i \in 1..cap |-> IF i <= Len(val) THEN val[i] % 256 ELSE 0]

\* read_string::<LEN>: the bytes before the first zero, each as a char
StrLenAt(v, o, cap) ==
    IF \E k \in 0..(cap - 1) : At(v, o + k) = 0
    THEN CHOOSE k \in 0..(cap - 1) : At(v, o + k) = 0 /\ \A j \in 0..(k - 1) : At(v, o + j) # 0
    ELSE cap

read_string(v, o, cap) == [i \in 1..StrLenAt(v, o, cap) |-> At(v, o + i - 1)]

(* ------------------------------ labels ------------------------------- *)

\* "Apple"
Apple == <<65, 112, 112, 108, 101>>
\* "Apple_partition_map"
Apple_partition_map == <<65, 112, 112, 108, 101, 95, 112, 97, 114, 116, 105, 116, 105, 111, 110, 95, 109, 97, 112>>
\* "Apple_Free"
Apple_Free == <<65, 112, 112, 108, 101, 95, 70, 114, 101, 101>>
\* "Apple_HFS"
Apple_HFS == <<65, 112, 112, 108, 101, 95, 72, 70, 83>>
\* "MacOS"
MacOS == <<77, 97, 99, 79, 83>>
\* "68000"
Proc68000 == <<54, 56, 48, 48, 48>>
\* "Apple_Driver43"
Apple_Driver43 == <<65, 112, 112, 108, 101, 95, 68, 114, 105, 118, 101, 114, 52, 51>>
\* a label exactly as long as the name slot, and one char longer
Name32 == [i \in 1..NAME_LEN |-> 78]
Name33 == [i \in 1..(NAME_LEN + 1) |-> 78]

(* ------------------------- records and layout ------------------------ *)

\* DriverData::new
DriverData(start, size, system_type) ==
    [start |-> start, size |-> size, system_type |-> system_type]

\* DriverDescriptorBlock::default().with_blk_count(blocks)
DefaultDriverDesc(blocks) ==
    [block_size |-> BLOCK, blk_count |-> blocks, dev_type |-> 1, dev_id |-> 1,
     data |-> 0, driver_count |-> 0, drivers |-> <<>>]

\* DriverDescriptorBlock::push_driver_data
push_driver_data(dd, d) ==
    [dd EXCEPT !.drivers = Append(@, d), !.driver_count = (@ + 1) % 65536]

\* PartitionEntry::new
NewEntry ==
    [sig |-> SIG_PM, partition_count |-> 0, start |-> 0, length |-> 0,
     name |-> <<>>, ty |-> <<>>, data_start |-> 0, data_count |-> 0,
     status |-> STATUS_NEW, boot_start |-> 0, boot_size |-> 0,
     boot_load_address |-> 0, boot_entry |-> 0, boot_checksum |-> 0,
     proc_type |-> <<>>]

\* with_length / set_length: both fields are set together
with_length(e, len) == [e EXCEPT !.length = len, !.data_count = len]

\* the deku assertion on sig, checked after reading and before writing
sig_assert(sig) == sig = SIG_PM \/ sig = SIG_DEC

RECURSIVE DriversBytes(_)
DriversBytes(ds) ==
    IF ds = <<>> THEN <<>>
    ELSE BE32(ds[1].start) \o BE16(ds[1].size) \o BE16(ds[1].system_type)
         \o DriversBytes(Tail(ds))

\* DriverDescriptorBlock::to_bytes: magic "ER", the header, the driver records
DriverDescBytes(dd) ==
    <<69, 82>> \o BE16(dd.block_size) \o BE32(dd.blk_count) \o BE16(dd.dev_type)
    \o BE16(dd.dev_id) \o BE32(dd.data) \o BE16(dd.driver_count)
    \o DriversBytes(dd.drivers)

\* the byte layout of a PartitionEntry, field by field, with its padding
EntryBytes(e) ==
    BE16(e.sig) \o Zeros(2) \o BE32(e.partition_count) \o BE32(e.start)
    \o BE32(e.length) \o write_string(NAME_LEN, e.name) \o write_string(NAME_LEN, e.ty)
    \o BE32(e.data_start) \o BE32(e.data_count) \o BE32(e.status)
    \o BE32(e.boot_start) \o BE32(e.boot_size) \o BE32(e.boot_load_address)
    \o Zeros(4) \o BE32(e.boot_entry) \o Zeros(4) \o BE32(e.boot_checksum)
    \o write_string(PROC_LEN, e.proc_type)

\* PartitionEntry::to_bytes: "Deku" when the sig assertion fails, "panic" when a
\* label overruns its slot in write_string, else the bytes
EntryToBytes(e) ==
    IF ~sig_assert(e.sig) THEN [res |-> "Deku", bytes |-> <<>>]
    ELSE IF write_string_panics(NAME_LEN, e.name) \/ write_string_panics(NAME_LEN, e.ty)
            \/ write_string_panics(PROC_LEN, e.proc_type)
         THEN [res |-> "panic", bytes |-> <<>>]
         ELSE [res |-> "Ok", bytes |-> EntryBytes(e)]

\* DriverDescriptorBlock::from_bytes on chunk 0 of data
RECURSIVE DriversAt(_, _, _)
DriversAt(data, o, n) ==
    IF n = 0 THEN <<>>
    ELSE <<DriverData(U32At(data, o), U16At(data, o + 4), U16At(data, o + 6))>>
         \o DriversAt(data, o + 8, n - 1)

DriverDescFromBytes(data) ==
    LET c == ChunkLen(data, 0)
        n == U16At(data, 16)
    IN  IF c < 2 THEN [err |-> "incomplete", val |-> DefaultDriverDesc(0)]
        ELSE IF At(data, 0) # 69 \/ At(data, 1) # 82
             THEN [err |-> "magic", val |-> DefaultDriverDesc(0)]
        ELSE IF c < 18 \/ c < 18 + 8 * n
             THEN [err |-> "incomplete", val |-> DefaultDriverDesc(0)]
        ELSE [err |-> "none",
              val |-> [block_size |-> U16At(data, 2), blk_count |-> U32At(data, 4),
                       dev_type |-> U16At(data, 8), dev_id |-> U16At(data, 10),
                       data |-> U32At(data, 12), driver_count |-> n,
                       drivers |-> DriversAt(data, 18, n)]]

\* PartitionEntry::from_bytes on chunk i of data: the fields are read in order
\* and the sig assertion is checked as soon as sig is read
EntryFromBytes(data, i) ==
    LET c == ChunkLen(data, i)
        o == i * BLOCK
    IN  IF c < 2 THEN [err |-> "incomplete", val |-> NewEntry]
        ELSE IF ~sig_assert(U16At(data, o)) THEN [err |-> "assertion", val |-> NewEntry]
        ELSE IF c < ENTRY_BYTES THEN [err |-> "incomplete", val |-> NewEntry]
        ELSE [err |-> "none",
              val |-> [sig |-> U16At(data, o), partition_count |-> U32At(data, o + 4),
                       start |-> U32At(data, o + 8), length |-> U32At(data, o + 12),
                       name |-> read_string(data, o + 16, NAME_LEN),
                       ty |-> read_string(data, o + 48, NAME_LEN),
                       data_start |-> U32At(data, o + 80),
                       data_count |-> U32At(data, o + 84),
                       status |-> U32At(data, o + 88), boot_start |-> U32At(data, o + 92),
                       boot_size |-> U32At(data, o + 96),
                       boot_load_address |-> U32At(data, o + 100),
                       boot_entry |-> U32At(data, o + 108),
                       boot_checksum |-> U32At(data, o + 116),
                       proc_type |-> read_string(data, o + 120, PROC_LEN)]]

(* ------------------------------ checksum ----------------------------- *)

\* u16::rotate_left(k)
rotate_left(x, k) ==
    LET r == k % 16 IN ((x * (2 ^ r)) % 65536) + (x \div (2 ^ (16 - r)))

\* apple_checksum's loop over data[o..len) entered with ret: every byte is added
\* (wrapping) and the sum rotated left by one; a run of g zero bytes is g
\* rotations, taken in one step here
RECURSIVE ChecksumLoop(_, _, _)
ChecksumLoop(data, o, ret) ==
    LET rest == {x \in DOMAIN data.nz : x >= o}
    IN  IF rest = {} THEN rotate_left(ret, data.len - o)
        ELSE LET n == CHOOSE x \in rest : \A y \in rest : x <= y
             IN  ChecksumLoop(data, n + 1,
                     rotate_left((rotate_left(ret, n - o) + data.nz[n]) % 65536, 1))

ChecksumValue(data) ==
    LET ret == ChecksumLoop(data, 0, 0) IN IF ret = 0 THEN 65535 ELSE ret

\* assert_eq!(ret, 0x885f) inside apple_checksum
apple_checksum_panics(data) == ChecksumValue(data) # CHECKSUM_EXPECTED

(* ------------------------------ allocator ---------------------------- *)

\* (data.len() + 0x1ff & !0x1ff)/512
BlocksFor(len) == ((len + 511) - ((len + 511) % BLOCK)) \div BLOCK

\* ApmMap::partitions: the iterator slices raw_data[start*512..][..length*512]
\* for every entry it yields; a slice out of range is a panic
partitions_panics(parts, raw) ==
    \E i \in 1..Len(parts) : ~SliceOk(raw, parts[i].start * BLOCK, parts[i].length * BLOCK)

\* ApmMap::partitions_used: the filter on the type label
is_used(p) == p.ty # Apple_Free

\* the loop of find_hole: hole is overwritten by every used entry in table order
RECURSIVE HoleLoop(_, _)
HoleLoop(parts, hole) ==
    IF parts = <<>> THEN hole
    ELSE HoleLoop(Tail(parts),
                  IF is_used(parts[1]) THEN parts[1].start + parts[1].length ELSE hole)

\* ApmMap::find_hole
find_hole(parts, raw, size) ==
    IF partitions_panics(parts, raw) THEN [res |-> "panic", hole |-> 0]
    ELSE LET hole == HoleLoop(parts, 1)
         IN  IF hole + size > raw.len \div BLOCK
             THEN [res |-> "NoSpace", hole |-> hole]
             ELSE [res |-> "Ok", hole |-> hole]

\* update_partition_count that forgets the entries already in the table
update_partition_count_last(parts) ==
    [i \in 1..Len(parts) |->
        IF i = Len(parts) THEN [parts[i] EXCEPT !.partition_count = Len(parts)]
        ELSE parts[i]]

\* ApmMap::update_partition_count
update_partition_count(parts) ==
    [i \in 1..Len(parts) |-> [parts[i] EXCEPT !.partition_count = Len(parts)]]

(* ------------------------- the call just made ------------------------ *)

\* op: the operation, res: "Ok", "NoSpace", "Deku" or "panic", err: the deku
\* error of a failed decode, data: the bytes passed in, start and size: the
\* extent placed, nread: the records decode had parsed when it returned
Call(op, res, err, data, start, size, nread) ==
    [op |-> op, res |-> res, err |-> err, data |-> data, start |-> start,
     size |-> size, nread |-> nread]

(* -------------------------------- state ------------------------------ *)

Init ==
    /\ status = "start"
    /\ update_driver_desc = FALSE
    /\ driver_desc = DefaultDriverDesc(0)
    /\ update_partition_table = FALSE
    /\ partitions = <<>>
    /\ raw_data = ZeroVec(0)
    /\ last = Call("none", "Ok", "none", ZeroVec(0), 0, 0, 0)
    /\ allocated = <<>>
    /\ origin = "none"
    /\ nops = 0
    /\ encodes = 0

\* a call that panics before it changed anything
Panic(op, data) ==
    /\ status' = "panicked"
    /\ last' = Call(op, "panic", "none", data, 0, 0, 0)
    /\ UNCHANGED <<image, allocated, origin>>

\* ApmMap::new
new(blocks) ==
    /\ status = "start"
    /\ status' = "live"
    /\ update_driver_desc' = TRUE
    /\ driver_desc' = DefaultDriverDesc(blocks)
    /\ update_partition_table' = TRUE
    /\ partitions' = << [with_length(NewEntry, MAP_LENGTH) EXCEPT
                            !.start = 1, !.partition_count = 1,
                            !.name = Apple, !.ty = Apple_partition_map] >>
    /\ raw_data' = ZeroVec(blocks * BLOCK)
    /\ last' = Call("new", "Ok", "none", ZeroVec(0), 0, 0, 0)
    /\ origin' = "new"
    /\ encodes' = 0
    /\ UNCHANGED <<allocated, nops>>

\* ApmMap::push_partition
push_partition(name, ty, data) ==
    /\ status = "live"
    /\ nops' = nops + 1
    /\ encodes' = 0
    /\ LET size == BlocksFor(data.len)
           r == find_hole(partitions, raw_data, size)
           entry == [with_length(NewEntry, size) EXCEPT
                        !.start = r.hole, !.name = name, !.ty = ty]
       IN  IF r.res = "panic" THEN Panic("push_partition", data)
           ELSE IF r.res = "NoSpace"
           THEN /\ last' = Call("push_partition", "NoSpace", "none", data, 0, size, 0)
                /\ UNCHANGED <<status, image, allocated, origin>>
           ELSE /\ partitions' = update_partition_count(Append(partitions, entry))
                /\ raw_data' = copy_from_slice(raw_data, r.hole * BLOCK, data)
                /\ update_partition_table' = TRUE
                /\ allocated' = Append(allocated, [start |-> r.hole, size |-> size,
                                                 used |-> is_used(entry)])
                /\ last' = Call("push_partition", "Ok", "none", data, r.hole, size, 0)
                /\ UNCHANGED <<status, update_driver_desc, driver_desc, origin>>

\* ApmMap::push_partition_at
push_partition_at(name, ty, proc, data, start) ==
    /\ status = "live"
    /\ nops' = nops + 1
    /\ encodes' = 0
    /\ LET size == BlocksFor(data.len)
           entry == [with_length(NewEntry, size) EXCEPT
                        !.start = start, !.name = name, !.ty = ty,
                        !.boot_checksum = BOOT_CHECKSUM_AT,
                        !.boot_size = BOOT_SIZE_AT, !.proc_type = proc]
       IN  IF apple_checksum_panics(data) THEN Panic("push_partition_at", data)
           ELSE IF ~SliceOk(raw_data, start * BLOCK, data.len)
           THEN \* the entry is pushed before the slice index panics
                /\ status' = "panicked"
                /\ partitions' = Append(partitions, entry)
                /\ last' = Call("push_partition_at", "panic", "none", data, start, size, 0)
                /\ UNCHANGED <<update_driver_desc, driver_desc, update_partition_table,
                               raw_data, allocated, origin>>
           ELSE /\ partitions' = update_partition_count(Append(partitions, entry))
                /\ raw_data' = copy_from_slice(raw_data, start * BLOCK, data)
                /\ update_partition_table' = TRUE
                /\ last' = Call("push_partition_at", "Ok", "none", data, start, size, 0)
                /\ UNCHANGED <<status, update_driver_desc, driver_desc, allocated, origin>>

\* ApmMap::push_driver
push_driver(ty, data) ==
    /\ status = "live"
    /\ nops' = nops + 1
    /\ encodes' = 0
    /\ LET size == BlocksFor(data.len)
           r == find_hole(partitions, raw_data, size)
       IN  IF r.res = "panic" THEN Panic("push_driver", data)
           ELSE IF r.res = "NoSpace"
           THEN /\ last' = Call("push_driver", "NoSpace", "none", data, 0, size, 0)
                /\ UNCHANGED <<status, image, allocated, origin>>
           ELSE /\ driver_desc' = push_driver_data(driver_desc,
                                      DriverData(r.hole, size % 65536, ty))
                /\ raw_data' = copy_from_slice(raw_data, r.hole * BLOCK, data)
                /\ update_driver_desc' = TRUE
                /\ allocated' = Append(allocated, [start |-> r.hole, size |-> size,
                                                 used |-> TRUE])
                /\ last' = Call("push_driver", "Ok", "none", data, r.hole, size, 0)
                /\ UNCHANGED <<status, update_partition_table, partitions, origin>>

(* --------------------------- encode / decode ------------------------- *)

\* the first half of encode: block 0, when the descriptor block is dirty
EncodeBlock0(raw, dd, dirty) ==
    IF ~dirty THEN [res |-> "Ok", raw |-> raw]
    ELSE LET block0 == DriverDescBytes(dd)
         IN  IF ~SliceOk(raw, 0, BLOCK) \/ Len(block0) > BLOCK
             THEN [res |-> "panic", raw |-> raw]
             ELSE [res |-> "Ok", raw |-> copy_from_slice(raw, 0, VecOf(block0))]

\* the loop of encode over the entries from index i (0-based) on: entry i goes
\* to raw_data[512+i*512..][..bytes.len()]
RECURSIVE EncodeLoop(_, _, _)
EncodeLoop(raw, parts, i) ==
    IF i >= Len(parts) THEN [res |-> "Ok", raw |-> raw]
    ELSE LET b == EntryToBytes(parts[i + 1])
         IN  IF b.res # "Ok" THEN [res |-> b.res, raw |-> raw]
             ELSE IF ~SliceOk(raw, BLOCK + i * BLOCK, Len(b.bytes))
             THEN [res |-> "panic", raw |-> raw]
             ELSE EncodeLoop(copy_from_slice(raw, BLOCK + i * BLOCK, VecOf(b.bytes)),
                             parts, i + 1)

\* an encode that marks what it serialized as clean
flag_cleared(flag) == FALSE

\* a dirty flag once encode returns: encode reads the flags and assigns neither
flag_after_encode(flag) == flag

\* ApmMap::encode
encode ==
    /\ status = "live"
    /\ encodes' = encodes + 1
    /\ LET b0 == EncodeBlock0(raw_data, driver_desc, update_driver_desc)
           counted == update_partition_count(partitions)
           tab == EncodeLoop(b0.raw, counted, 0)
       IN  IF b0.res = "panic"
           THEN Panic("encode", ZeroVec(0)) /\ UNCHANGED nops
           ELSE IF ~update_partition_table
           THEN /\ raw_data' = b0.raw
                /\ last' = Call("encode", "Ok", "none", ZeroVec(0), 0, 0, 0)
                /\ update_driver_desc' = flag_after_encode(update_driver_desc)
                /\ update_partition_table' = flag_after_encode(update_partition_table)
                /\ UNCHANGED <<status, driver_desc, partitions, allocated, origin, nops>>
           ELSE /\ partitions' = counted
                /\ raw_data' = tab.raw
                /\ status' = IF tab.res = "panic" THEN "panicked" ELSE status
                /\ last' = Call("encode", tab.res, "none", ZeroVec(0), 0, 0, 0)
                /\ update_driver_desc' = flag_after_encode(update_driver_desc)
                /\ update_partition_table' = flag_after_encode(update_partition_table)
                /\ UNCHANGED <<driver_desc, allocated, origin, nops>>

\* the loop of decode over the chunks from index i on: it stops after the entry
\* whose own partition_count equals the chunk index, or when the chunks run out
RECURSIVE DecodeLoop(_, _, _)
DecodeLoop(data, i, acc) ==
    IF i >= NumChunks(data) THEN [err |-> "none", parts |-> acc]
    ELSE LET e == EntryFromBytes(data, i)
         IN  IF e.err # "none" THEN [err |-> e.err, parts |-> acc]
             ELSE IF i = e.val.partition_count
             THEN [err |-> "none", parts |-> Append(acc, e.val)]
             ELSE DecodeLoop(data, i + 1, Append(acc, e.val))

\* a decode loop that stops at the count stored in the entry at chunk 1
RECURSIVE DecodeLoopFirst(_, _, _)
DecodeLoopFirst(data, i, acc) ==
    IF i >= NumChunks(data) THEN [err |-> "none", parts |-> acc]
    ELSE LET e == EntryFromBytes(data, i)
         IN  IF e.err # "none" THEN [err |-> e.err, parts |-> acc]
             ELSE IF i = U32At(data, BLOCK + 4)
             THEN [err |-> "none", parts |-> Append(acc, e.val)]
             ELSE DecodeLoopFirst(data, i + 1, Append(acc, e.val))

decode_table_first(data) == DecodeLoopFirst(data, 1, <<>>)

\* the table decode reads from data: chunk 0 is the descriptor block, the
\* entries start at chunk 1
decode_table(data) == DecodeLoop(data, 1, <<>>)

\* ApmMap::decode as a function of its input: "panic" (no chunk 0 to unwrap),
\* "Deku" with the error, or "Ok" with the descriptor block and the table
DecodeResult(data) ==
    IF NumChunks(data) = 0
    THEN [res |-> "panic", err |-> "none", dd |-> DefaultDriverDesc(0), parts |-> <<>>]
    ELSE LET dd == DriverDescFromBytes(data)
             tab == decode_table(data)
         IN  IF dd.err # "none"
             THEN [res |-> "Deku", err |-> dd.err, dd |-> dd.val, parts |-> <<>>]
             ELSE IF tab.err # "none"
             THEN [res |-> "Deku", err |-> tab.err, dd |-> dd.val, parts |-> tab.parts]
             ELSE [res |-> "Ok", err |-> "none", dd |-> dd.val, parts |-> tab.parts]

\* ApmMap::decode
decode(data) ==
    /\ status = "start"
    /\ LET r == DecodeResult(data)
       IN  /\ last' = Call("decode", r.res, r.err, data, 0, 0, Len(r.parts))
           /\ IF r.res = "Ok"
              THEN /\ status' = "live"
                   /\ update_driver_desc' = FALSE
                   /\ driver_desc' = r.dd
                   /\ update_partition_table' = FALSE
                   /\ partitions' = r.parts
                   /\ raw_data' = data
              ELSE /\ status' = IF r.res = "panic" THEN "panicked" ELSE "failed"
                   /\ UNCHANGED image
    /\ origin' = "decode"
    /\ encodes' = 0
    /\ UNCHANGED <<allocated, nops>>

\* PartitionEntry::length on entry idx (1-based here): assert_eq!(data_count, length)
length(idx) ==
    /\ status = "live"
    /\ idx \in 1..Len(partitions)
    /\ IF partitions[idx].data_count # partitions[idx].length
       THEN Panic("length", ZeroVec(0))
       ELSE /\ last' = Call("length", "Ok", "none", ZeroVec(0),
                            partitions[idx].start, partitions[idx].length, 0)
            /\ UNCHANGED <<status, image, allocated, origin>>
    /\ UNCHANGED <<nops, encodes>>

(* -------------------------------- inputs ----------------------------- *)

\* payloads: empty, 513 bytes (two blocks once rounded), and 8 bytes whose
\* apple_checksum is 0x885f, the only value push_partition_at's assertion lets by
Empty == ZeroVec(0)
P513 == [len |-> BLOCK + 1, nz |-> (0 :> 7) @@ (100 :> 9) @@ (BLOCK :> 3)]
PCk == VecOf(<<231, 255, 0, 255, 0, 0, 0, 255>>)

Payloads == {Empty, P513, PCk}
Names == {Name32, Name33}
Types == {Apple_HFS, Apple_Free}
AtStarts == {2, MAP_LENGTH + 1}
NewBlocks == {1, MAP_LENGTH + 2, MaxBlocks}

\* a table entry as found on disk
Ent(sig, cnt, start, len, dcount, name, ty) ==
    [NewEntry EXCEPT !.sig = sig, !.partition_count = cnt, !.start = start,
                     !.length = len, !.data_start = 0, !.data_count = dcount,
                     !.name = name, !.ty = ty]

RECURSIVE PlaceEntries(_, _, _)
PlaceEntries(raw, entries, i) ==
    IF i > Len(entries) THEN raw
    ELSE PlaceEntries(copy_from_slice(raw, i * BLOCK, VecOf(EntryBytes(entries[i]))),
                      entries, i + 1)

\* the bytes of a device of nblocks blocks: junk in the payload area, the
\* descriptor block in block 0, entry k in block k
ImageOf(dd, entries, nblocks, junk) ==
    PlaceEntries(copy_from_slice([len |-> nblocks * BLOCK, nz |-> junk], 0,
                                 VecOf(DriverDescBytes(dd))),
                 entries, 1)

\* the first n bytes of v
Truncated(v, n) ==
    IF n >= v.len THEN v
    ELSE [len |-> n, nz |-> [o \in {x \in DOMAIN v.nz : x < n} |-> v.nz[o]]]

\* non-zero bytes in blocks 4 and 5, outside every table block
Junk == ((4 * BLOCK) :> 255) @@ ((4 * BLOCK + 200) :> 170) @@ ((5 * BLOCK + 300) :> 187)

DiskDriverDesc == push_driver_data(DefaultDriverDesc(DecBlocks), DriverData(3, 1, 1))

\* a well-formed table whose free region holds stale bytes
ImageFree ==
    ImageOf(DiskDriverDesc,
            << Ent(SIG_PM, 3, 1, 2, 2, Apple, Apple_partition_map),
               Ent(SIG_PM, 3, 3, 1, 1, MacOS, Apple_HFS),
               Ent(SIG_PM, 3, 4, DecBlocks - 4, DecBlocks - 4, <<>>, Apple_Free) >>,
            DecBlocks, Junk)

\* a well-formed table whose entries are not in block order
ImageUnsorted ==
    ImageOf(DiskDriverDesc,
            << Ent(SIG_PM, 3, 1, 2, 2, Apple, Apple_partition_map),
               Ent(SIG_PM, 3, 4, 1, 1, MacOS, Apple_HFS),
               Ent(SIG_PM, 3, 3, 1, 1, MacOS, Apple_HFS) >>,
            DecBlocks, Junk)

\* a table whose entries disagree on the partition count
ImageMiscounted ==
    ImageOf(DiskDriverDesc,
            << Ent(SIG_PM, 0, 1, 2, 2, Apple, Apple_partition_map),
               Ent(SIG_PM, 5, 3, 1, 1, MacOS, Apple_HFS),
               Ent(SIG_PM, 3, 4, 1, 1, <<>>, Apple_Free) >>,
            DecBlocks, Junk)

DecodeInputs == {ImageFree, ImageUnsorted, ImageMiscounted}

\* the images of the decoder's own specification: three table blocks with
\* every combination of signature, partition count and data length drawn
\* below, cut to several lengths
Sigs == {SIG_PM, SIG_TS, SIG_DEC, 0}
Counts == 0..3
Lens == {0, BLOCK + 100, 4 * BLOCK, DecBlocks * BLOCK}

WideImages ==
    { Truncated(ImageOf(DiskDriverDesc,
                        << Ent(s1, c1, 1, 2, 2 + d1, Apple, Apple_partition_map),
                           Ent(s2, c2, 3, 1, 1, MacOS, Apple_HFS),
                           Ent(SIG_PM, c3, 4, 1, 1, <<>>, Apple_Free) >>,
                        DecBlocks, Junk), n) :
        s1 \in Sigs, s2 \in {SIG_PM, SIG_TS}, c1 \in Counts, c2 \in Counts,
        c3 \in {0, 3}, d1 \in {0, 1}, n \in Lens }

(* ---------------------------- specifications ------------------------- *)

Next ==
    \/ \E blocks \in NewBlocks : new(blocks)
    \/ \E data \in DecodeInputs : decode(data)
    \/ nops < MaxOps /\ \E name \in Names, ty \in Types, data \in Payloads :
           push_partition(name, ty, data)
    \/ nops < MaxOps /\ \E data \in Payloads, start \in AtStarts :
           push_partition_at(MacOS, Apple_Driver43, Proc68000, data, start)
    \/ nops < MaxOps /\ \E data \in Payloads : push_driver(1, data)
    \/ encodes < MaxEncodes /\ encode

Spec == Init /\ [][Next]_vars

\* the decoder alone, over many images
NextDecode ==
    \/ \E data \in WideImages : decode(data)
    \/ \E idx \in 1..Len(partitions) : length(idx)

SpecDecode == Init /\ [][NextDecode]_vars

\* one fresh image filled by the allocator alone in the order of main's Create:
\* the drivers, then the partitions entry after entry, then one encode
NextTable ==
    \/ new(TableBlocks)
    \/ nops < MaxTableOps /\ last.op # "encode" /\ push_partition(MacOS, Apple_HFS, PCk)
    \/ Len(driver_desc.drivers) < MaxTableDrivers /\ Len(partitions) = 1
          /\ last.op # "encode" /\ push_driver(1, PCk)
    \/ encodes < 1 /\ encode

SpecTable == Init /\ [][NextTable]_vars

(* ------------------------------- claims ------------------------------ *)

Disjoint(a, b) == a.start + a.size <= b.start \/ b.start + b.size <= a.start

\* C1: any two extents whose start was chosen by the allocator (push_partition,
\* push_driver) are disjoint.  Extents handed to an entry typed "Apple_Free"
\* are left out: find_hole skips such entries on purpose.
C1_AllocatedDisjoint ==
    \A i \in 1..Len(allocated) : \A j \in 1..Len(allocated) :
        (i < j /\ allocated[i].used /\ allocated[j].used)
            => Disjoint(allocated[i], allocated[j])

\* the highest start+length over the used entries, 1 when there is none
HighestEnd(parts) ==
    LET ends == {parts[i].start + parts[i].length :
                    i \in {k \in 1..Len(parts) : parts[k].ty # Apple_Free}}
    IN  IF ends = {} THEN 1 ELSE CHOOSE e \in ends : \A f \in ends : f <= e

\* the table as it was when the call recorded in last began
TableBefore ==
    IF last.op = "push_partition" /\ last.res = "Ok"
    THEN SubSeq(partitions, 1, Len(partitions) - 1)
    ELSE partitions

\* C2: the start block the allocator chooses equals the highest start+length
\* over all entries whose type is not "Apple_Free", whatever their order.
C2_StartIsHighestEnd ==
    (last.op \in {"push_partition", "push_driver"} /\ last.res = "Ok")
        => last.start = HighestEnd(TableBefore)

\* C3: a push_partition or push_driver whose rounded size exceeds the blocks
\* left between the candidate start and the end of the device returns NoSpace
\* and leaves the image as it was.
C3_NoSpaceLeavesImage ==
    [][ ( /\ nops' = nops + 1
          /\ last'.op \in {"push_partition", "push_driver"}
          /\ BlocksFor(last'.data.len) > (raw_data.len \div BLOCK) - HoleLoop(partitions, 1) )
        => (last'.res = "NoSpace" /\ image' = image) ]_vars

\* C4: after a successful push_partition or push_partition_at every entry's
\* partition_count equals the number of entries.
C4_CountsAgree ==
    (last.op \in {"push_partition", "push_partition_at"} /\ last.res = "Ok")
        => \A i \in 1..Len(partitions) : partitions[i].partition_count = Len(partitions)

\* a push onto a table of at least two entries has returned Ok
C4_Witness ==
    /\ last.op \in {"push_partition", "push_partition_at"}
    /\ last.res = "Ok"
    /\ Len(partitions) >= 3

SameEntries(a, b) ==
    /\ Len(a) = Len(b)
    /\ \A i \in 1..Len(a) :
          /\ a[i].start = b[i].start
          /\ a[i].length = b[i].length
          /\ a[i].name = b[i].name
          /\ a[i].ty = b[i].ty

SameDrivers(a, b) ==
    /\ Len(a) = Len(b)
    /\ \A i \in 1..Len(a) : a[i].start = b[i].start /\ a[i].size = b[i].size

\* C5: for an image built by new and the push_* calls, encode succeeds and
\* decoding its output gives the same partition and driver records.  Stated
\* here for the devices that have a block for every table entry.
C5_RoundTrip ==
    (origin = "new" /\ last.op = "encode"
        /\ raw_data.len >= (Len(partitions) + 1) * BLOCK)
        => /\ last.res = "Ok"
           /\ LET r == DecodeResult(raw_data)
              IN  /\ r.res = "Ok"
                  /\ SameEntries(r.parts, partitions)
                  /\ SameDrivers(r.dd.drivers, driver_desc.drivers)

\* the partition_count stored in the entry at block k of the decoded bytes
CountAt(k) == U32At(last.data, k * BLOCK + 4)

\* C6 as stated: decode returns as many entries as the partition_count of the
\* entry at block 1 says.
C6_CountOfFirstEntry ==
    (last.op = "decode" /\ last.res = "Ok") => Len(partitions) = CountAt(1)

\* C6 amended: decode stops after the first entry whose own partition_count
\* equals its block index, or when the data ends; so when the entries at
\* blocks 1..n all carry n, the table has exactly n entries whatever follows.
C6_StopsAtOwnCount ==
    (last.op = "decode" /\ last.res = "Ok") =>
        LET n == Len(partitions)
            avail == NumChunks(last.data) - 1
        IN  /\ \A k \in 1..(n - 1) : CountAt(k) # k
            /\ n = avail \/ (n >= 1 /\ CountAt(n) = n)
            /\ ( /\ CountAt(1) \in 1..avail
                 /\ \A k \in 1..CountAt(1) : CountAt(k) = CountAt(1) )
               => n = CountAt(1)

\* a table of three entries that all carry 3, followed by non-zero bytes
C6_Witness ==
    /\ last.op = "decode" /\ last.res = "Ok"
    /\ Len(partitions) = 3
    /\ CountAt(1) = 3 /\ CountAt(2) = 3 /\ CountAt(3) = 3
    /\ NumChunks(last.data) > 4
    /\ At(last.data, 4 * BLOCK) # 0

\* C7: push_partition of n bytes appends an entry of ceil(n/512) blocks and
\* every byte of that extent after the first n is zero.
C7_RemainderZero ==
    (last.op = "push_partition" /\ last.res = "Ok") =>
        LET e == partitions[Len(partitions)]
            n == last.data.len
        IN  /\ e.length = (n + BLOCK - 1) \div BLOCK
            /\ \A o \in DOMAIN raw_data.nz :
                  ~(e.start * BLOCK + n <= o /\ o < (e.start + e.length) * BLOCK)

TooLong(e) ==
    Len(e.name) > NAME_LEN \/ Len(e.ty) > NAME_LEN \/ Len(e.proc_type) > PROC_LEN

\* C8: encode writes a label as long as its slot with no zero byte in the slot,
\* and reports a label longer than its slot as a LabelTooLong error, never a
\* crash.
C8_LabelBoundary ==
    last.op = "encode" =>
        /\ (\E i \in 1..Len(partitions) : TooLong(partitions[i]))
              => (last.res = "LabelTooLong" /\ status # "panicked")
        /\ last.res = "Ok" =>
              \A i \in 1..Len(partitions) :
                  Len(partitions[i].name) = NAME_LEN =>
                      \A k \in 0..(NAME_LEN - 1) : At(raw_data, i * BLOCK + 16 + k) # 0

\* C9: data_count equals length in every entry of every image, so the
\* assertion in length() never fails.
C9_DataCountIsLength ==
    /\ status = "live" =>
          \A i \in 1..Len(partitions) : partitions[i].data_count = partitions[i].length
    /\ ~(last.op = "length" /\ last.res = "panic")

\* the signature stored in the entry at block k of the decoded bytes
SigAt(k) == U16At(last.data, k * BLOCK)

\* C10: an entry passes decode's signature check exactly when its signature is
\* 0x504D or 0x5453.
C10_SigCheck ==
    last.op = "decode" =>
        /\ \A k \in 1..last.nread : SigAt(k) \in {SIG_PM, SIG_TS}
        /\ (last.res = "Deku" /\ last.err = "assertion")
              => SigAt(last.nread + 1) \notin {SIG_PM, SIG_TS}

\* C11: encode leaves both dirty flags as they were, and an encode that follows
\* an encode with no call in between leaves the buffer byte for byte as it was.
C11_EncodeIdempotent ==
    [][ (last'.op = "encode" /\ encodes' = encodes + 1) =>
           /\ update_driver_desc' = update_driver_desc
           /\ update_partition_table' = update_partition_table
           /\ (encodes >= 1 /\ last.res = "Ok") =>
                 (last'.res = "Ok" /\ raw_data' = raw_data) ]_vars

\* a second encode in a row has returned on a dirty image with a pushed entry
C11_Witness ==
    /\ last.op = "encode" /\ last.res = "Ok"
    /\ encodes >= 2
    /\ update_driver_desc /\ update_partition_table
    /\ Len(partitions) >= 2

\* C12: on a fresh image filled by push_partition and push_driver, the table
\* blocks encode writes (1..number of entries) stay inside the map extent of
\* the seeded "Apple" entry and touch no block of an allocator-placed extent.
C12_TableInsideMap ==
    (origin = "new" /\ last.op = "encode" /\ last.res = "Ok") =>
        /\ Len(partitions) <= partitions[1].length
        /\ \A i \in 1..Len(allocated) :
              allocated[i].size > 0 => allocated[i].start > Len(partitions)

====
